---- MODULE Spec2Model ----
(***************************************************************************)
(* A model of website/search.js: the SonicHubSearch class (loadIndex,      *)
(* normalizeText, searchInText, search) and the debounce helper that wraps *)
(* the search box's input listener.                                        *)
(*                                                                         *)
(* JavaScript strings are sequences of characters; a character is a        *)
(* one-element name ("a", "_", " ") or, outside ASCII, the name of its     *)
(* code point ("U+4E2D").  A JavaScript value that may be null or          *)
(* undefined is a record tagged by its type.                               *)
(***************************************************************************)
EXTENDS Integers, Sequences, FiniteSets, TLC

VARIABLES
    index,      \* this.index: JSNull or the parsed search_index.json
    isLoading,  \* this.isLoading
    calls,      \* the loadIndex()/search() calls: position, arguments, locals, result,
                \* and how the call's own load ended ("resolved", "rejected" or "")
    fetches,    \* requests for search_index.json issued so far
    normIn,     \* the argument of a normalizeText call
    normOut,    \* its result
    normPc,     \* "ready" before the call, "done" after
    timeout,    \* debounce: the closure's variable, a timer id (0: undefined)
    timers,     \* the timers setTimeout has set and that neither fired nor were cleared
    clock,      \* milliseconds since the page was loaded
    events,     \* the input events dispatched so far, each with its time
    invoked     \* the calls of the wrapped handler, each with its time and arguments

vars == <<index, isLoading, calls, fetches, normIn, normOut, normPc,
          timeout, timers, clock, events, invoked>>

searcherVars == <<index, isLoading, calls, fetches>>
normVars == <<normIn, normOut, normPc>>
debounceVars == <<timeout, timers, clock, events, invoked>>

----------------------------------------------------------------------------
(* JavaScript values *)

JSNull == [t |-> "null"]
JSUndefined == [t |-> "undefined"]
Str(s) == [t |-> "string", s |-> s]

\* !v for a value that is null, undefined or a string
Falsy(v) == v.t = "null" \/ v.t = "undefined" \/ (v.t = "string" /\ v.s = <<>>)

----------------------------------------------------------------------------
(* Characters *)

\* the longest string drawn as an input of normalizeText
MaxLen == 3

LowerLetters == {"a", "b", "i"}
UpperLetters == {"A"}
Digits == {"1"}
Underscore == {"_"}
Punctuation == {"!"}
\* U+4E2D lies in the range U+4E00 to U+9FFF
Chinese == {"U+4E2D"}
\* letters outside ASCII: E-acute in both cases, capital I with dot above
OtherLetters == {"U+00C9", "U+00E9", "U+0130"}
\* U+0307, the combining dot that lowercasing U+0130 produces
CombiningMarks == {"U+0307"}
\* \s of a regular expression and the white space trim() strips are the same set
Whitespace == {" ", "\t"}

Chars == LowerLetters \cup UpperLetters \cup Digits \cup Underscore
            \cup Punctuation \cup Chinese \cup OtherLetters \cup Whitespace

\* String.prototype.toLowerCase on one character (it may give two)
LowerOfChar(c) ==
    CASE c = "A" -> <<"a">>
      [] c = "U+00C9" -> <<"U+00E9">>
      [] c = "U+0130" -> <<"i", "U+0307">>
      [] OTHER -> <<c>>

RECURSIVE toLowerCase(_)
toLowerCase(s) ==
    IF s = <<>> THEN <<>> ELSE LowerOfChar(Head(s)) \o toLowerCase(Tail(s))

\* \w of a regular expression without the u flag: [A-Za-z0-9_]
WordChar(c) == c \in LowerLetters \cup UpperLetters \cup Digits \cup Underscore

\* the class [^\w\u4e00-\u9fff\s] of the replace: the characters it deletes
Removed(c) == ~(WordChar(c) \/ c \in Chinese \/ c \in Whitespace)

RECURSIVE replaceRemoved(_)
replaceRemoved(s) ==
    IF s = <<>> THEN <<>>
    ELSE IF Removed(Head(s)) THEN replaceRemoved(Tail(s))
    ELSE <<Head(s)>> \o replaceRemoved(Tail(s))

RECURSIVE trimStart(_)
trimStart(s) ==
    IF s # <<>> /\ Head(s) \in Whitespace THEN trimStart(Tail(s)) ELSE s

RECURSIVE trimEnd(_)
trimEnd(s) ==
    IF s # <<>> /\ s[Len(s)] \in Whitespace
    THEN trimEnd(SubSeq(s, 1, Len(s) - 1)) ELSE s

trim(s) == trimEnd(trimStart(s))

normalizeText(text) ==
    IF Falsy(text) THEN <<>>
    ELSE trim(replaceRemoved(toLowerCase(text.s)))

----------------------------------------------------------------------------
(* search: the query, the scan of the threads, the sort and the cut *)

RECURSIVE startsWith(_, _)
startsWith(s, k) ==
    \/ k = <<>>
    \/ s # <<>> /\ Head(s) = Head(k) /\ startsWith(Tail(s), Tail(k))

\* a changed includes: the keyword found only at the start of the text
includesAtStart(s, k) == startsWith(s, k)

\* String.prototype.includes
RECURSIVE includes(_, _)
includes(s, k) ==
    \/ startsWith(s, k)
    \/ s # <<>> /\ includes(Tail(s), k)

\* keywords.some(keyword => normalizedText.includes(keyword))
searchInText(text, keywords) ==
    \E n \in 1..Len(keywords) : includes(normalizeText(text), keywords[n])

\* String.prototype.split(/\s+/); cur is the piece being read
RECURSIVE splitFrom(_, _)
splitFrom(s, cur) ==
    IF s = <<>> THEN <<cur>>
    ELSE IF Head(s) \in Whitespace
         THEN <<cur>> \o splitFrom(trimStart(Tail(s)), <<>>)
         ELSE splitFrom(Tail(s), Append(cur, Head(s)))

split(s) == splitFrom(s, <<>>)

NonEmpty(k) == Len(k) > 0

\* a changed keywordsOf: the query split without being normalized
keywordsOfRawQuery(query) == SelectSeq(split(query), NonEmpty)

\* this.normalizeText(query).split(/\s+/).filter(k => k.length > 0)
keywordsOf(query) == SelectSeq(split(normalizeText(Str(query))), NonEmpty)

\* the options object: a record holding some of the four option names
NoOptions == [n \in {} |-> FALSE]

DefaultMaxResults == 50
SnippetLength == 200

Option(options, name, default) ==
    IF name \in DOMAIN options THEN options[name] ELSE default

Min(a, b) == IF a < b THEN a ELSE b
Max(a, b) == IF a > b THEN a ELSE b

\* post.content.substring(0, 200) + '...'
Snippet(content) ==
    SubSeq(content.s, 1, Min(Len(content.s), SnippetLength)) \o <<".", ".", ".">>

\* the postMatches array of one post
postMatchesOf(post, keywords, options) ==
    (IF Option(options, "searchAuthor", TRUE) /\ searchInText(post.author, keywords)
     THEN <<[type |-> "author", text |-> post.author]>> ELSE <<>>)
    \o
    (IF Option(options, "searchContent", TRUE) /\ searchInText(post.content, keywords)
     THEN <<[type |-> "content", text |-> Str(Snippet(post.content))]>> ELSE <<>>)

\* the entries pushed to matches by the loop over thread.posts, from post i on
RECURSIVE postEntries(_, _, _, _)
postEntries(posts, i, keywords, options) ==
    IF i > Len(posts) THEN <<>>
    ELSE LET pm == postMatchesOf(posts[i], keywords, options)
         IN  (IF Len(pm) > 0
              THEN <<[type |-> "post", postIndex |-> i - 1,
                      author |-> posts[i].author, matches |-> pm]>>
              ELSE <<>>)
             \o postEntries(posts, i + 1, keywords, options)

\* the matches array of one thread
matchesOf(thread, keywords, options) ==
    (IF Option(options, "searchTitle", TRUE) /\ searchInText(thread.title, keywords)
     THEN <<[type |-> "title", text |-> thread.title]>> ELSE <<>>)
    \o postEntries(thread.posts, 1, keywords, options)

\* the loop over Object.entries(this.index.threads), from entry i on
RECURSIVE scanThreads(_, _, _, _)
scanThreads(threads, i, keywords, options) ==
    IF i > Len(threads) THEN <<>>
    ELSE LET m == matchesOf(threads[i], keywords, options)
         IN  (IF Len(m) > 0
              THEN <<[type |-> "thread", file |-> threads[i].file,
                      title |-> threads[i].title, matches |-> m,
                      score |-> Len(m)]>>
              ELSE <<>>)
             \o scanThreads(threads, i + 1, keywords, options)

\* the comparator of results.sort
compare(a, b) == b.score - a.score

\* a changed insertSorted: x put in front of the elements it ties with
RECURSIVE insertSortedBeforeTies(_, _)
insertSortedBeforeTies(sorted, x) ==
    IF sorted = <<>> THEN <<x>>
    ELSE IF compare(Head(sorted), x) >= 0
         THEN <<x>> \o sorted
         ELSE <<Head(sorted)>> \o insertSortedBeforeTies(Tail(sorted), x)

\* x put into a sorted array behind every element that does not sort after it
RECURSIVE insertSorted(_, _)
insertSorted(sorted, x) ==
    IF sorted = <<>> THEN <<x>>
    ELSE IF compare(Head(sorted), x) > 0
         THEN <<x>> \o sorted
         ELSE <<Head(sorted)>> \o insertSorted(Tail(sorted), x)

\* Array.prototype.sort with the comparator: a stable sort
RECURSIVE sortFrom(_, _, _)
sortFrom(results, i, sorted) ==
    IF i > Len(results) THEN sorted
    ELSE sortFrom(results, i + 1, insertSorted(sorted, results[i]))

sort(results) == sortFrom(results, 1, <<>>)

\* a changed slice: one element more than asked for
sliceOneMore(a, end) == SubSeq(a, 1, Min(end + 1, Len(a)))

\* Array.prototype.slice(0, end)
slice(a, end) ==
    LET e == IF end < 0 THEN Max(Len(a) + end, 0) ELSE Min(end, Len(a))
    IN  SubSeq(a, 1, e)

Truthy(v) == ~Falsy(v)

\* what a search call holds when it ends: keywords, results (sorted), the return value
EarlyReturn == [keywords |-> <<>>, results |-> <<>>, ret |-> <<>>]

\* lines 36 to 98 of search, run when the await of loadIndex resumes
searchBody(idx, query, options) ==
    IF Falsy(idx) \/ Falsy(Str(trim(query))) THEN EarlyReturn
    ELSE LET keywords == keywordsOf(query)
         IN  IF Len(keywords) = 0 THEN EarlyReturn
             ELSE LET results == sort(scanThreads(idx.threads, 1, keywords, options))
                  IN  [keywords |-> keywords,
                       results |-> results,
                       ret |-> slice(results, Option(options, "maxResults", DefaultMaxResults))]

----------------------------------------------------------------------------
(* the searcher: loadIndex and search calls, the fetch and its outcomes *)

NewCall(kind, query, options, pc) ==
    [kind |-> kind, pc |-> pc, query |-> query, options |-> options,
     outcome |-> "", keywords |-> <<>>, results |-> <<>>, ret |-> <<>>]

\* where a call stands once loadIndex has returned
AfterLoad(kind) == IF kind = "search" THEN "loaded" ELSE "done"

\* a changed BeginLoad: isLoading not looked at
BeginLoadWhileLoading(kind, query, options) ==
    IF Truthy(index)
    THEN /\ calls' = Append(calls, NewCall(kind, query, options, AfterLoad(kind)))
         /\ UNCHANGED <<index, isLoading, fetches>>
    ELSE /\ isLoading' = TRUE
         /\ fetches' = fetches + 1
         /\ calls' = Append(calls, NewCall(kind, query, options, "fetch"))
         /\ UNCHANGED index

\* lines 9 to 13: the synchronous start of loadIndex
BeginLoad(kind, query, options) ==
    IF Truthy(index) \/ isLoading
    THEN /\ calls' = Append(calls, NewCall(kind, query, options, AfterLoad(kind)))
         /\ UNCHANGED <<index, isLoading, fetches>>
    ELSE /\ isLoading' = TRUE
         /\ fetches' = fetches + 1
         /\ calls' = Append(calls, NewCall(kind, query, options, "fetch"))
         /\ UNCHANGED index

\* a caller calls loadIndex()
CallLoadIndex(limit) ==
    /\ Len(calls) < limit
    /\ BeginLoad("loadIndex", <<>>, NoOptions)
    /\ UNCHANGED <<normVars, debounceVars>>

\* a caller calls search(query, options): it runs up to the await of loadIndex
CallSearch(queries, optionObjects, limit) ==
    /\ Len(calls) < limit
    /\ \E query \in queries, options \in optionObjects :
          BeginLoad("search", query, options)
    /\ UNCHANGED <<normVars, debounceVars>>

\* A settled fetch or response.json() is delivered by a task of the event loop,
\* which runs only once the microtasks are done: no call is then between the
\* return of loadIndex and the resumption of search
MicrotasksDone == \A c \in 1..Len(calls) : calls[c].pc # "loaded"

\* fetch('search_index.json') resolves: loadIndex goes on to response.json()
FetchResolve(c) ==
    /\ MicrotasksDone
    /\ calls[c].pc = "fetch"
    /\ calls' = [calls EXCEPT ![c].pc = "json"]
    /\ UNCHANGED <<index, isLoading, fetches, normVars, debounceVars>>

\* a changed FinishLoad: isLoading reset inside the try, so not after a failure
FinishLoadInsideTry(c, outcome) ==
    /\ isLoading' = IF outcome = "rejected" THEN isLoading ELSE FALSE
    /\ calls' = [calls EXCEPT ![c].pc = AfterLoad(calls[c].kind),
                              ![c].outcome = outcome]

\* the end of loadIndex, past the try (outcome "resolved") or past the catch
\* block (outcome "rejected"): line 19
FinishLoad(c, outcome) ==
    /\ isLoading' = FALSE
    /\ calls' = [calls EXCEPT ![c].pc = AfterLoad(calls[c].kind),
                              ![c].outcome = outcome]

\* fetch rejects
FetchReject(c) ==
    /\ MicrotasksDone
    /\ calls[c].pc = "fetch"
    /\ FinishLoad(c, "rejected")
    /\ UNCHANGED <<index, fetches, normVars, debounceVars>>

\* response.json() resolves with the document: line 14; the console.log of line
\* 15 throws on a null document, which the catch swallows
JsonResolve(c, documents) ==
    /\ MicrotasksDone
    /\ calls[c].pc = "json"
    /\ \E doc \in documents : index' = doc
    /\ FinishLoad(c, "resolved")
    /\ UNCHANGED <<fetches, normVars, debounceVars>>

\* response.json() rejects
JsonReject(c) ==
    /\ MicrotasksDone
    /\ calls[c].pc = "json"
    /\ FinishLoad(c, "rejected")
    /\ UNCHANGED <<index, fetches, normVars, debounceVars>>

\* search resumes after await this.loadIndex() and runs to its return
SearchResume(c) ==
    /\ calls[c].pc = "loaded"
    /\ LET r == searchBody(index, calls[c].query, calls[c].options)
       IN  calls' = [calls EXCEPT ![c].pc = "done",
                                  ![c].keywords = r.keywords,
                                  ![c].results = r.results,
                                  ![c].ret = r.ret]
    /\ UNCHANGED <<index, isLoading, fetches, normVars, debounceVars>>

----------------------------------------------------------------------------
(* The documents, queries and options the calls are drawn from *)

\* the most threads of a drawn index
MaxThreads == 3
\* the largest maxResults drawn
MaxCut == 2
\* the most loadIndex/search calls of one page session
MaxCalls == 3

Post(author, content) == [author |-> author, content |-> content]

\* file n stands for the n-th file name (a key of index.threads)
Thread(n, title, posts) == [file |-> n, title |-> title, posts |-> posts]

ThreadPool == {
    Thread(1, Str(<<"A", " ", "b">>),
           <<Post(Str(<<"b">>), Str(<<"1">>))>>),
    Thread(2, JSNull,
           <<Post(Str(<<"a">>), Str(<<"a", "!", "b">>)),
             Post(Str(<<"_">>), Str(<<"b", " ", "a">>))>>),
    Thread(3, Str(<<"U+4E2D", "1">>), <<>>),
    Thread(4, Str(<<"b">>),
           <<Post(Str(<<"a">>), Str(<<"a">>)),
             Post(Str(<<"A">>), JSNull)>>),
    Thread(5, Str(<<"a", "b">>),
           <<Post(Str(<<"A">>), Str(<<>>))>>)
}

Document(threads) == [t |-> "object", threads |-> threads]

\* the documents of at most n threads of the pool, each file name a key once
Documents(n) ==
    {Document(ts) : ts \in
        UNION {{s \in [1..k -> ThreadPool] :
                    \A i, j \in 1..k : i # j => s[i].file # s[j].file} : k \in 0..n}}

\* a document of more threads than the default maxResults, of scores 1 to 3
BigDocument ==
    Document([n \in 1..(DefaultMaxResults + 2) |->
        Thread(100 + n, Str(<<"a">>),
               [p \in 1..(n % 3) |-> Post(Str(<<"a">>), Str(<<"b">>))])])

QueryPool == {
    <<>>, <<" ">>, <<"!">>, <<"!", " ", "\t">>,
    <<"a">>, <<"A">>, <<"b">>, <<"a", "b">>, <<"a", "!", "b">>,
    <<"a", " ", "1">>, <<" ", "b", "\t", "_">>, <<"U+4E2D">>, <<"i">>
}

FlagNames == {"searchAuthor", "searchTitle", "searchContent"}

WithMaxResults(flags, m) ==
    [n \in DOMAIN flags \cup {"maxResults"} |->
        IF n = "maxResults" THEN m ELSE flags[n]]

\* the options objects that give any of the three flags
FlagObjects == UNION {[S -> BOOLEAN] : S \in SUBSET FlagNames}

\* the options objects that give maxResults (in cuts) or nothing
CutObjects(cuts) == {NoOptions} \cup {WithMaxResults(NoOptions, m) : m \in cuts}

\* the document of the query specification
QueryDocument ==
    Document(<<CHOOSE th \in ThreadPool : th.file = 1,
               CHOOSE th \in ThreadPool : th.file = 2>>)

\* the inputs of the page-session specification
FewQueries == {<<"a">>, <<" ">>}
FewOptions == {NoOptions}
FewDocuments ==
    {JSNull,
     Document(<<CHOOSE th \in ThreadPool : th.file = 2>>),
     Document(<<CHOOSE th \in ThreadPool : th.file = 4>>)}

----------------------------------------------------------------------------
(* normalizeText as an operation of its own *)

StringsUpTo(n) == UNION {[1..k -> Chars] : k \in 0..n}

NormInputs == {JSNull, JSUndefined} \cup {Str(s) : s \in StringsUpTo(MaxLen)}

SearcherIdle ==
    /\ index = JSNull
    /\ isLoading = FALSE
    /\ calls = <<>>
    /\ fetches = 0

NormIdle ==
    /\ normIn = JSNull
    /\ normOut = <<>>
    /\ normPc = "idle"

DebounceIdle ==
    /\ timeout = 0
    /\ timers = {}
    /\ clock = 0
    /\ events = <<>>
    /\ invoked = <<>>

InitNorm ==
    /\ normIn \in NormInputs
    /\ normOut = <<>>
    /\ normPc = "ready"
    /\ SearcherIdle
    /\ DebounceIdle

CallNormalizeText ==
    /\ normPc = "ready"
    /\ normOut' = normalizeText(normIn)
    /\ normPc' = "done"
    /\ UNCHANGED <<normIn, searcherVars, debounceVars>>

NextNorm == CallNormalizeText

SpecNorm == InitNorm /\ [][NextNorm]_vars

----------------------------------------------------------------------------
(* The specifications of the searcher *)

\* the state the constructor leaves
Init == SearcherIdle /\ NormIdle /\ DebounceIdle

Called == 1..Len(calls)

\* a page session: up to MaxCalls calls of loadIndex and search, interleaved
Next ==
    \/ CallLoadIndex(MaxCalls)
    \/ CallSearch(FewQueries, FewOptions, MaxCalls)
    \/ \E c \in Called : FetchResolve(c)
    \/ \E c \in Called : FetchReject(c)
    \/ \E c \in Called : JsonResolve(c, FewDocuments)
    \/ \E c \in Called : JsonReject(c)
    \/ \E c \in Called : SearchResume(c)

Spec == Init /\ [][Next]_vars

\* one search call on a fresh searcher: any pooled query, any choice of the three
\* flags, any document of the pool's threads
NextSearch ==
    \/ CallSearch(QueryPool, FlagObjects, 1)
    \/ \E c \in Called : FetchResolve(c)
    \/ \E c \in Called : FetchReject(c)
    \/ \E c \in Called : JsonResolve(c, Documents(MaxThreads))
    \/ \E c \in Called : JsonReject(c)
    \/ \E c \in Called : SearchResume(c)

SpecSearch == Init /\ [][NextSearch]_vars

\* one search call on a fresh searcher: any query of at most MaxLen characters
NextQuery ==
    \/ CallSearch(StringsUpTo(MaxLen), {NoOptions}, 1)
    \/ \E c \in Called : FetchResolve(c)
    \/ \E c \in Called : FetchReject(c)
    \/ \E c \in Called : JsonResolve(c, {Document(<<>>), QueryDocument})
    \/ \E c \in Called : JsonReject(c)
    \/ \E c \in Called : SearchResume(c)

SpecQuery == Init /\ [][NextQuery]_vars

\* one search call on a fresh searcher: maxResults given or not, any document,
\* the one of more threads than the default maxResults among them
NextCut ==
    \/ CallSearch(QueryPool, CutObjects(0..MaxCut), 1)
    \/ \E c \in Called : FetchResolve(c)
    \/ \E c \in Called : FetchReject(c)
    \/ \E c \in Called : JsonResolve(c, Documents(MaxThreads) \cup {BigDocument})
    \/ \E c \in Called : JsonReject(c)
    \/ \E c \in Called : SearchResume(c)

SpecCut == Init /\ [][NextCut]_vars

----------------------------------------------------------------------------
(* debounce(func, wait) around the input listener, and the browser's timers *)

Wait == 500

\* the most input events of a run of the model
MaxEvents == 3
\* the time the model runs to
MaxTime == 1500

\* the steps time advances by, short of the next timer's due time
Gaps == {250, 499}

Due == {tm \in timers : tm.due <= clock}

\* a changed clearTimeout: the timer is left running
clearTimeoutNothing(active, id) == active

\* clearTimeout(id): no effect when id is no active timer
clearTimeout(active, id) == {tm \in active : tm.id # id}

\* an input event: executedFunction(...args) runs; args is the event (its number)
executedFunction ==
    /\ Len(events) < MaxEvents
    /\ Due = {}
    /\ LET args == Len(events) + 1
           id == Len(events) + 1
       IN  /\ timers' = clearTimeout(timers, timeout)
                            \cup {[id |-> id, due |-> clock + Wait, args |-> args]}
           /\ timeout' = id
           /\ events' = Append(events, [at |-> clock])
    /\ UNCHANGED <<clock, invoked, searcherVars, normVars>>

\* a timer fires: later() runs clearTimeout(timeout) and func(...args)
later ==
    \E tm \in Due :
        /\ timers' = clearTimeout(timers \ {tm}, timeout)
        /\ invoked' = Append(invoked, [at |-> clock, args |-> tm.args])
        /\ UNCHANGED <<timeout, clock, events, searcherVars, normVars>>

\* time passes, up to the next timer's due time
Advance ==
    /\ Due = {}
    /\ clock < MaxTime
    /\ \E d \in Gaps :
          LET t == Min(clock + d, MaxTime)
              next == {tm.due : tm \in timers}
          IN  clock' = IF \E n \in next : n < t
                       THEN CHOOSE n \in next : \A m \in next : n <= m
                       ELSE t
    /\ UNCHANGED <<timeout, timers, events, invoked, searcherVars, normVars>>

NextDebounce == executedFunction \/ later \/ Advance

SpecDebounce == Init /\ [][NextDebounce]_vars

----------------------------------------------------------------------------
(* Properties *)

\* the calls whose fetch or response.json() is not settled yet
InFlight == {c \in Called : calls[c].pc \in {"fetch", "json"}}

\* C1: the index is fetched and cached once: at most one fetch of
\* search_index.json is in flight at any time, and once this.index holds a loaded
\* document no step issues another fetch or replaces this.index.
C1_FetchedAndCachedOnce ==
    /\ [](Cardinality(InFlight) <= 1)
    /\ [][Truthy(index) => (index' = index /\ fetches' = fetches)]_vars

\* three calls, a loadIndex and a search with results among them, all ended on a
\* loaded index after a single fetch
C1_Witness ==
    /\ Truthy(index)
    /\ fetches = 1
    /\ Len(calls) >= 3
    /\ \A c \in Called : calls[c].pc = "done"
    /\ \E c \in Called : calls[c].kind = "loadIndex"
    /\ \E c \in Called : calls[c].kind = "search" /\ calls[c].ret # <<>>
    /\ \E c \in Called : calls[c].kind = "search" /\ calls[c].outcome = ""

\* k occurs in n as a run of consecutive characters
Contains(n, k) ==
    \E i \in 1..(Len(n) - Len(k) + 1) : SubSeq(n, i, i + Len(k) - 1) = k

FieldMatches(text, keywords) ==
    \E n \in 1..Len(keywords) : Contains(normalizeText(text), keywords[n])

\* an option is on when it is given as true or not given
On(options, flag) == flag \notin DOMAIN options \/ options[flag]

TitleMatched(thread, keywords, options) ==
    On(options, "searchTitle") /\ FieldMatches(thread.title, keywords)

PostMatched(post, keywords, options) ==
    \/ On(options, "searchAuthor") /\ FieldMatches(post.author, keywords)
    \/ On(options, "searchContent") /\ FieldMatches(post.content, keywords)

ThreadMatched(thread, keywords, options) ==
    \/ TitleMatched(thread, keywords, options)
    \/ \E p \in 1..Len(thread.posts) : PostMatched(thread.posts[p], keywords, options)

\* 1 for a matching title plus the number of posts with a match
MatchCount(thread, keywords, options) ==
    (IF TitleMatched(thread, keywords, options) THEN 1 ELSE 0)
    + Cardinality({p \in 1..Len(thread.posts) :
                      PostMatched(thread.posts[p], keywords, options)})

\* the place of file f among the entries of index.threads
EntryOf(f) == CHOOSE i \in 1..Len(index.threads) : index.threads[i].file = f

\* a search call that ran to its end on a loaded index
Searched(c) ==
    calls[c].kind = "search" /\ calls[c].pc = "done" /\ Truthy(index)

\* C2: with the index loaded and at least one keyword, a thread is in the result
\* list (before the maxResults cut) if and only if some keyword is a substring of
\* its normalized title (searchTitle on), or of the normalized author or content
\* of one of its posts (searchAuthor, searchContent on); each thread appears at
\* most once.
C2_ResultsAreTheMatchingThreads ==
    \A c \in Called :
        Searched(c) /\ calls[c].keywords # <<>> =>
            LET r == calls[c].results
                th == index.threads
            IN  /\ \A i \in 1..Len(th) :
                       (\E j \in 1..Len(r) : r[j].file = th[i].file)
                       <=> ThreadMatched(th[i], calls[c].keywords, calls[c].options)
                /\ \A j \in 1..Len(r) : \E i \in 1..Len(th) : th[i].file = r[j].file
                /\ \A j, k \in 1..Len(r) : j # k => r[j].file # r[k].file

\* two keywords, searchTitle off, some threads of the index found and some not
C2_Witness ==
    \E c \in Called :
        /\ Searched(c)
        /\ Len(calls[c].keywords) >= 2
        /\ "searchTitle" \in DOMAIN calls[c].options
        /\ ~calls[c].options["searchTitle"]
        /\ Len(calls[c].results) >= 2
        /\ Len(calls[c].results) < Len(index.threads)

\* C3: every result's score is the length of its matches list, which is 1 for a
\* matching title plus the number of posts with an author or content match; the
\* returned list is in non-increasing order of score, ties in index order.
C3_RankedByMatchCount ==
    \A c \in Called :
        Searched(c) =>
            LET ret == calls[c].ret
            IN  /\ \A j \in 1..Len(ret) :
                       /\ ret[j].score = Len(ret[j].matches)
                       /\ \E i \in 1..Len(index.threads) :
                             /\ index.threads[i].file = ret[j].file
                             /\ Len(ret[j].matches) =
                                   MatchCount(index.threads[i], calls[c].keywords,
                                              calls[c].options)
                /\ \A j, k \in 1..Len(ret) :
                       j < k =>
                           /\ ret[j].score >= ret[k].score
                           /\ ret[j].score = ret[k].score
                                 => EntryOf(ret[j].file) < EntryOf(ret[k].file)

\* three results: a tie, a strict drop of the score, a thread moved in front of an
\* earlier entry of the index, and a post matching on author and content at once
C3_Witness ==
    \E c \in Called :
        /\ Searched(c)
        /\ LET ret == calls[c].ret
           IN  /\ Len(ret) >= 3
               /\ \E j \in 1..(Len(ret) - 1) : ret[j].score = ret[j + 1].score
               /\ \E j \in 1..(Len(ret) - 1) : ret[j].score > ret[j + 1].score
               /\ \E j \in 1..(Len(ret) - 1) :
                      EntryOf(ret[j].file) > EntryOf(ret[j + 1].file)
               /\ \E j \in 1..Len(ret) : \E m \in 1..Len(ret[j].matches) :
                      /\ ret[j].matches[m].type = "post"
                      /\ Len(ret[j].matches[m].matches) = 2

\* the maximal runs of characters of n that are not white space, as <<first, last>>
Pieces(n) ==
    {r \in (1..Len(n)) \X (1..Len(n)) :
        /\ r[1] <= r[2]
        /\ \A k \in r[1]..r[2] : n[k] \notin Whitespace
        /\ r[1] = 1 \/ n[r[1] - 1] \in Whitespace
        /\ r[2] = Len(n) \/ n[r[2] + 1] \in Whitespace}

\* keywords are the pieces of n, in their order
ArePieces(keywords, n) ==
    /\ Len(keywords) = Cardinality(Pieces(n))
    /\ \A r \in Pieces(n) :
          keywords[Cardinality({q \in Pieces(n) : q[1] <= r[1]})] = SubSeq(n, r[1], r[2])

\* a character of which normalization leaves nothing
Dropped(ch) == normalizeText(Str(<<ch>>)) = <<>>

\* C4: the keywords are exactly the non-empty whitespace-separated pieces of
\* normalizeText(query); a query that is empty, whitespace-only or made only of
\* characters that normalization removes yields no keywords and search returns
\* the empty list.
C4_KeywordsAreWhitespacePieces ==
    \A c \in Called :
        Searched(c) =>
            /\ ArePieces(calls[c].keywords, normalizeText(Str(calls[c].query)))
            /\ (\A i \in 1..Len(calls[c].query) : Dropped(calls[c].query[i]))
                  => calls[c].keywords = <<>> /\ calls[c].ret = <<>>
            /\ calls[c].keywords = <<>> => calls[c].ret = <<>>

\* a query with an upper-case letter and white space in it gives two keywords and
\* finds threads
C4_Witness ==
    \E c \in Called :
        /\ Searched(c)
        /\ Len(calls[c].keywords) = 2
        /\ \E i \in 1..Len(calls[c].query) : calls[c].query[i] \in UpperLetters
        /\ calls[c].ret # <<>>

\* the limit of a call: its maxResults option, 50 when it is not given
Limit(options) ==
    IF "maxResults" \in DOMAIN options THEN options["maxResults"] ELSE DefaultMaxResults

\* C5: the returned list has at most maxResults entries (50 when the option is
\* not given) and is the leading part of the score-sorted list of all matching
\* threads: every matching thread left out has a score no greater than that of
\* every thread returned.
C5_ResultsAreLimited ==
    \A c \in Called :
        Searched(c) =>
            LET ret == calls[c].ret
                r == calls[c].results
                th == index.threads
            IN  /\ Len(ret) <= Limit(calls[c].options)
                /\ Len(ret) = Min(Limit(calls[c].options), Len(r))
                /\ ret = SubSeq(r, 1, Len(ret))
                /\ \A j, k \in 1..Len(r) : j < k => r[j].score >= r[k].score
                /\ calls[c].keywords # <<>> =>
                      \A i \in 1..Len(th) :
                          (/\ ThreadMatched(th[i], calls[c].keywords, calls[c].options)
                           /\ \A j \in 1..Len(ret) : ret[j].file # th[i].file)
                          => \A j \in 1..Len(ret) :
                                 MatchCount(th[i], calls[c].keywords, calls[c].options)
                                    <= ret[j].score

\* no maxResults given, more than 50 matching threads: 50 are returned
C5_Witness ==
    \E c \in Called :
        /\ Searched(c)
        /\ "maxResults" \notin DOMAIN calls[c].options
        /\ Len(calls[c].results) > DefaultMaxResults
        /\ Len(calls[c].ret) = DefaultMaxResults
        /\ calls[c].ret[1].score > calls[c].ret[DefaultMaxResults].score

Letters == LowerLetters \cup UpperLetters \cup OtherLetters

\* C6: the result of normalizeText is lowercase, has no leading or trailing
\* white space and contains no character other than letters, digits, Chinese
\* characters and white space; null, undefined and the empty string give the
\* empty string.
C6_OnlyLettersDigitsChineseSpaces ==
    normPc = "done" =>
        /\ \A i \in 1..Len(normOut) : LowerOfChar(normOut[i]) = <<normOut[i]>>
        /\ normOut # <<>> =>
              normOut[1] \notin Whitespace /\ normOut[Len(normOut)] \notin Whitespace
        /\ \A i \in 1..Len(normOut) :
              normOut[i] \in Letters \cup Digits \cup Chinese \cup Whitespace
        /\ Falsy(normIn) => normOut = <<>>

\* the same with the underscore, which \w keeps, among the characters allowed
NormalizeTextKeepsWordCharacters ==
    normPc = "done" =>
        /\ \A i \in 1..Len(normOut) : LowerOfChar(normOut[i]) = <<normOut[i]>>
        /\ normOut # <<>> =>
              normOut[1] \notin Whitespace /\ normOut[Len(normOut)] \notin Whitespace
        /\ \A i \in 1..Len(normOut) :
              normOut[i] \in LowerLetters \cup Digits \cup Underscore
                                \cup Chinese \cup Whitespace
        /\ Falsy(normIn) => normOut = <<>>

\* event k is the last of its run: no later event, or the next one not under
\* Wait milliseconds after it
EndsRun(k) ==
    k = Len(events) \/ events[k + 1].at - events[k].at >= Wait

C8_FailedLoadIsRecoverable ==
    /\ [][\A c \in Called :
            calls[c].pc \in {"fetch", "json"} /\ calls'[c].pc \notin {"fetch", "json"}
            => /\ isLoading' = FALSE
               /\ calls'[c].pc = AfterLoad(calls[c].kind)
               /\ calls'[c].outcome = "rejected" => index' = JSNull]_vars
    /\ [](\A c \in Called :
            calls[c].kind = "search" /\ calls[c].outcome = "rejected"
                /\ calls[c].pc = "done"
            => calls[c].ret = <<>>)
    /\ [][/\ Len(calls') > Len(calls)
          /\ \E c \in Called : calls[c].outcome = "rejected"
          /\ Falsy(index)
          /\ InFlight = {}
          => /\ fetches' = fetches + 1
             /\ calls'[Len(calls')].pc = "fetch"]_vars

\* a search whose load failed returned the empty list, and a later search
\* fetched again and found threads
C8_Witness ==
    \E c, d \in Called :
        /\ c < d
        /\ calls[c].kind = "search" /\ calls[c].outcome = "rejected"
        /\ calls[c].pc = "done" /\ calls[c].ret = <<>>
        /\ calls[d].kind = "search" /\ calls[d].outcome = "resolved"
        /\ calls[d].pc = "done" /\ calls[d].ret # <<>>
        /\ fetches = 2
        /\ ~isLoading

====
